---- MODULE Spec2Model ----
(***************************************************************************)
(* The geometry-to-stitch compiler of src/lambdas/svg_converter.py:        *)
(* element extraction, coordinate conversion, the fill / satin / running   *)
(* stitch generators, the stitch order optimizer, the command stream of    *)
(* add_svg_to_pattern and the writer cascade of convert_svg_to_pes.        *)
(*                                                                         *)
(* Numbers.  A Python float is modelled as an exact rational <<n, d>> in   *)
(* lowest terms with d > 0; the value <<0, 0>> is NaN.  Arithmetic on NaN  *)
(* gives NaN and every ordered comparison with NaN is FALSE, as in IEEE    *)
(* arithmetic.  Rounding of finite values is not modelled.                 *)
(***************************************************************************)
EXTENDS Integers, Sequences, FiniteSets, TLC

VARIABLES
    svg,        \* convert_svg_to_pes: the markup, as the attribute records of its elements
    avail,      \* PYEMBROIDERY_AVAILABLE
    pc,         \* position inside convert_svg_to_pes
    blocksIn,   \* add_svg_to_pattern: stitch_blocks before optimize_stitch_order
    blocks,     \* add_svg_to_pattern: stitch_blocks after optimize_stitch_order
    gens,       \* add_svg_to_pattern: which generator ran for the fill of each element
    simpleGens, \* create_simple_pes_file: which generator ran for the fill of each element
    perBlock,   \* the commands added by each iteration of the block loop
    pattern,    \* pattern.stitches: the command stream
    threads,    \* pattern.threadlist: the hex values of the threads added
    result,     \* the value convert_svg_to_pes returns
    arg,        \* the argument of a generator applied on its own
    ret,        \* its return value
    table,      \* the status table: the item of the request, <<>> when there is none
    objects,    \* the objects in the buckets: quarantine, processing, converted
    invocations \* asynchronous invocations of the converter so far

vars == <<svg, avail, pc, blocksIn, blocks, gens, simpleGens, perBlock, pattern, threads, result, arg, ret,
          table, objects, invocations>>

\* the services behind boto3
cloud == <<table, objects, invocations>>

(***************************************************************************)
(* Bounds of the model.                                                    *)
(***************************************************************************)
MaxElems == 2       \* elements per document
MaxCoord == 2       \* a generator applied on its own: grid coordinates Coord(0) .. Coord(MaxCoord)
MaxPts == 3         \* generate_running_stitches on its own: points per input
MaxBlocks == 3      \* optimize_stitch_order on its own: blocks per input
MaxWords == 6       \* counted buffers: 16-bit words after the 8-byte prefix
MaxStitches == 5    \* round trip: stitches per encoded list
Tolerance == 2      \* round trip: the accepted error of the heuristic count
MaxSpan == 5        \* long strokes: up to max_stitches_per_block * MaxSpan / (MaxSpan - 1) points

(***************************************************************************)
(* Floats.                                                                 *)
(***************************************************************************)
NaN == <<0, 0>>

IsNaN(a) == a[2] = 0

Abs(n) == IF n < 0 THEN -n ELSE n

RECURSIVE GCD(_, _)
GCD(a, b) == IF b = 0 THEN a ELSE GCD(b, a % b)

\* the float n / d (d # 0), in lowest terms
Rat(n, d) ==
    LET s == IF d < 0 THEN -1 ELSE 1
        g == GCD(Abs(n), Abs(d))
    IN  <<(s * n) \div g, (s * d) \div g>>

I(k) == <<k, 1>>

RAdd(a, b) == IF IsNaN(a) \/ IsNaN(b) THEN NaN ELSE Rat(a[1] * b[2] + b[1] * a[2], a[2] * b[2])
RSub(a, b) == IF IsNaN(a) \/ IsNaN(b) THEN NaN ELSE Rat(a[1] * b[2] - b[1] * a[2], a[2] * b[2])
RMul(a, b) == IF IsNaN(a) \/ IsNaN(b) THEN NaN ELSE Rat(a[1] * b[1], a[2] * b[2])
\* a / b for b # 0 (Python raises ZeroDivisionError on b = 0: callers test DivRaises first)
RDiv(a, b) == IF IsNaN(a) \/ IsNaN(b) THEN NaN ELSE Rat(a[1] * b[2], a[2] * b[1])
DivRaises(b) == ~IsNaN(b) /\ b[1] = 0

RLt(a, b) == ~IsNaN(a) /\ ~IsNaN(b) /\ a[1] * b[2] < b[1] * a[2]
RLe(a, b) == ~IsNaN(a) /\ ~IsNaN(b) /\ a[1] * b[2] <= b[1] * a[2]
RGt(a, b) == RLt(b, a)
RGe(a, b) == RLe(b, a)
REq(a, b) == ~IsNaN(a) /\ ~IsNaN(b) /\ a = b
RNe(a, b) == ~REq(a, b)

\* math.isnan / math.isinf: no infinite value arises in the model (no input is
\* infinite and a division by zero raises)
IsFinite(a) == ~IsNaN(a)

\* int(a): truncation toward zero (ValueError on NaN: callers test IsNaN first)
Trunc(a) == IF a[1] >= 0 THEN a[1] \div a[2] ELSE -((-a[1]) \div a[2])

\* Python's two-argument min(a, b) / max(a, b): b only when b < a / b > a
Min2(a, b) == IF RLt(b, a) THEN b ELSE a
Max2(a, b) == IF RGt(b, a) THEN b ELSE a

\* a local variable: value is computed once and Body uses the result
Bind(value, Body(_)) == CHOOSE r \in {Body(v) : v \in {value}} : TRUE

\* Python's min(iterable) / max(iterable): the first item, replaced by a later
\* item only when that one compares smaller / larger.  A NaN first item is
\* never replaced; after a finite first item a NaN is never taken.  The items
\* lo .. hi are folded by halves.
RECURSIVE MinOf(_, _, _)
MinOf(s, lo, hi) ==
    IF lo = hi THEN s[lo]
    ELSE LET a == MinOf(s, lo, (lo + hi) \div 2)
             b == MinOf(s, (lo + hi) \div 2 + 1, hi)
         IN  IF IsNaN(a) THEN b ELSE IF RLt(b, a) THEN b ELSE a
RECURSIVE MaxOf(_, _, _)
MaxOf(s, lo, hi) ==
    IF lo = hi THEN s[lo]
    ELSE LET a == MaxOf(s, lo, (lo + hi) \div 2)
             b == MaxOf(s, (lo + hi) \div 2 + 1, hi)
         IN  IF IsNaN(a) THEN b ELSE IF RGt(b, a) THEN b ELSE a
PyMin(s) == Bind(s \o <<>>, LAMBDA l : IF IsNaN(l[1]) THEN NaN ELSE MinOf(l, 1, Len(l)))
PyMax(s) == Bind(s \o <<>>, LAMBDA l : IF IsNaN(l[1]) THEN NaN ELSE MaxOf(l, 1, Len(l)))

\* a Python list built by a comprehension or a loop, fully evaluated
List(s) == s \o <<>>

Xs(coords) == List([i \in 1..Len(coords) |-> coords[i][1]])
Ys(coords) == List([i \in 1..Len(coords) |-> coords[i][2]])

Pt(x, y) == <<I(x), I(y)>>

\* (x2 - x1)**2 + (y2 - y1)**2
Dist2(p, q) ==
    RAdd(RMul(RSub(q[1], p[1]), RSub(q[1], p[1])), RMul(RSub(q[2], p[2]), RSub(q[2], p[2])))

\* (n * len)^2 <= d2, i.e. n <= math.sqrt(d2) / len
FitsIn(n, len, d2) == RLe(RMul(RMul(I(n), len), RMul(I(n), len)), d2)

\* the first of hi, 2 * hi, 4 * hi, .. that does not fit
RECURSIVE FirstOver(_, _, _)
FirstOver(d2, len, hi) == IF FitsIn(hi, len, d2) THEN FirstOver(d2, len, 2 * hi) ELSE hi

\* the largest n in lo .. hi - 1 that fits, lo fitting and hi not
RECURSIVE LargestFit(_, _, _, _)
LargestFit(d2, len, lo, hi) ==
    IF hi - lo <= 1 THEN lo
    ELSE IF FitsIn((lo + hi) \div 2, len, d2) THEN LargestFit(d2, len, (lo + hi) \div 2, hi)
    ELSE LargestFit(d2, len, lo, (lo + hi) \div 2)

\* int(math.sqrt(d2) / len) for d2 >= 0, len > 0: the largest n >= n0 with (n * len)^2 <= d2
IntSqrtOver(d2, len, n0) == LargestFit(d2, len, n0, FirstOver(d2, len, n0 + 1))

\* the lists ss[lo], .., ss[hi] joined in order
RECURSIVE ConcatRange(_, _, _)
ConcatRange(ss, lo, hi) ==
    IF lo > hi THEN <<>>
    ELSE IF lo = hi THEN ss[lo]
    ELSE ConcatRange(ss, lo, (lo + hi) \div 2) \o ConcatRange(ss, (lo + hi) \div 2 + 1, hi)

Concat(ss) == Bind(List(ss), LAMBDA l : ConcatRange(l, 1, Len(l)))

(***************************************************************************)
(* generate_running_stitches                                               *)
(***************************************************************************)
\* the j-th of num intermediate stitches between current_pos and target_pos
Intermediate(cur, tgt, j, num) ==
    LET t == Rat(j, num + 1)
    IN  <<RAdd(cur[1], RMul(RSub(tgt[1], cur[1]), t)),
          RAdd(cur[2], RMul(RSub(tgt[2], cur[2]), t))>>

\* the loop body with one intermediate stitch too few: t = j / num for j < num
RunningSegmentShort(cur, tgt, len) ==
    LET d2 == Dist2(cur, tgt)
    IN  IF RGt(d2, RMul(len, len))
        THEN LET num == IntSqrtOver(d2, len, 0)
             IN  [j \in 1..(num - 1) |->
                     <<RAdd(cur[1], RMul(RSub(tgt[1], cur[1]), Rat(j, num))),
                       RAdd(cur[2], RMul(RSub(tgt[2], cur[2]), Rat(j, num)))>>] \o <<tgt>>
        ELSE <<tgt>>

\* what one iteration of the loop appends: the intermediate stitches, then target_pos
RunningSegment(cur, tgt, len) ==
    Bind(Dist2(cur, tgt),
         LAMBDA d2 :
             IF RGt(d2, RMul(len, len))      \* distance > stitch_length
             THEN Bind(IntSqrtOver(d2, len, 0),
                       LAMBDA num : [j \in 1..num |-> Intermediate(cur, tgt, j, num)] \o <<tgt>>)
             ELSE <<tgt>>)

generate_running_stitches(coords, len) ==
    IF Len(coords) < 2 THEN <<>>
    ELSE <<coords[1]>> \o
         Concat([i \in 1..(Len(coords) - 1) |-> RunningSegment(coords[i], coords[i + 1], len)])

(***************************************************************************)
(* PROFESSIONAL_SETTINGS                                                   *)
(***************************************************************************)
fill_density == Rat(5, 2)
fill_stitch_length == Rat(6, 5)
satin_stitch_length == Rat(3, 2)
underlay_density == I(5)
satin_width_threshold == I(6)
max_stitches_per_block == 5000
underlay_step == 3
stroke_stitch_length == Rat(5, 2)

(***************************************************************************)
(* is_point_in_polygon: ray casting over the edges polygon[i-1], polygon[i % n] *)
(***************************************************************************)
EdgeToggles(x, y, p1, p2) ==
    /\ RGt(y, Min2(p1[2], p2[2]))
    /\ RLe(y, Max2(p1[2], p2[2]))
    /\ RLe(x, Max2(p1[1], p2[1]))
    /\ LET xinters ==
               IF RNe(p1[2], p2[2]) /\ ~DivRaises(RSub(p2[2], p1[2]))
               THEN RAdd(RDiv(RMul(RSub(y, p1[2]), RSub(p2[1], p1[1])), RSub(p2[2], p1[2])), p1[1])
               ELSE NaN
       IN  REq(p1[1], p2[1]) \/ RLe(x, xinters)

RECURSIVE InsideFrom(_, _, _, _)
InsideFrom(pt, polygon, i, inside) ==
    IF i > Len(polygon) THEN inside
    ELSE LET p1 == polygon[i]
             p2 == polygon[(i % Len(polygon)) + 1]
         IN  InsideFrom(pt, polygon, i + 1,
                        IF EdgeToggles(pt[1], pt[2], p1, p2) THEN ~inside ELSE inside)

is_point_in_polygon(pt, polygon) == InsideFrom(pt, polygon, 1, FALSE)

(***************************************************************************)
(* generate_fill_stitches and generate_underlay_stitches                   *)
(***************************************************************************)
BBox(coords) ==
    Bind(<<Xs(coords), Ys(coords)>>,
         LAMBDA c : [min_x |-> PyMin(c[1]), max_x |-> PyMax(c[1]),
                     min_y |-> PyMin(c[2]), max_y |-> PyMax(c[2])])

\* range(a, b + 1, step)
RangeSeq(a, b, step) == List([k \in 1..((b - a) \div step + 1) |-> a + (k - 1) * step])

\* the scan rows y = min_y + i * row_spacing, i in range(num_rows), up to the break
RowYs(bb, row_spacing) ==
    LET num_rows == Max2(I(1), I(Trunc(RDiv(RSub(bb.max_y, bb.min_y), row_spacing)) + 1))[1]
        all == [k \in 1..num_rows |-> RAdd(bb.min_y, RMul(I(k - 1), row_spacing))]
        Kept(y) == ~RGt(y, bb.max_y)
    IN  SelectSeq(all, Kept)

\* the points of one scan row that pass the bounding-box and the polygon test
ScanRow(coords, bb, y, step) ==
    LET xs == RangeSeq(Trunc(bb.min_x), Trunc(bb.max_x), step)
        cand == [k \in 1..Len(xs) |-> <<I(xs[k]), y>>]
        Keep(p) == /\ RLt(bb.min_x, p[1]) /\ RLt(p[1], bb.max_x)
                   /\ RLt(bb.min_y, p[2]) /\ RLt(p[2], bb.max_y)
                   /\ is_point_in_polygon(p, coords)
    IN  SelectSeq(cand, Keep)

ScanRows(coords, row_spacing, step) ==
    Bind(BBox(coords),
         LAMBDA bb : Bind(RowYs(bb, row_spacing),
                          LAMBDA ys : Concat([r \in 1..Len(ys) |-> ScanRow(coords, bb, ys[r], step)])))

\* int() of a NaN bound raises ValueError
BBoxRaises(coords) ==
    Bind(BBox(coords),
         LAMBDA bb : IsNaN(bb.min_x) \/ IsNaN(bb.max_x) \/ IsNaN(bb.min_y) \/ IsNaN(bb.max_y))

generate_underlay_stitches(coords) ==
    IF Len(coords) < 3 THEN <<>> ELSE ScanRows(coords, underlay_density, underlay_step)

Capped(s) == IF Len(s) > max_stitches_per_block THEN SubSeq(s, 1, max_stitches_per_block) ELSE s

\* [raised, pts]: the exception flag and the returned stitch list
generate_fill_stitches(coords) ==
    IF Len(coords) < 3 THEN [raised |-> FALSE, pts |-> <<>>]
    ELSE IF BBoxRaises(coords) THEN [raised |-> TRUE, pts |-> <<>>]
    ELSE [raised |-> FALSE,
          pts |-> Bind(generate_underlay_stitches(coords)
                       \o ScanRows(coords, fill_density, Trunc(fill_stitch_length)),
                       LAMBDA all_stitches : Capped(all_stitches))]

(***************************************************************************)
(* generate_satin_stitches.  math.sqrt is exact on the squares of          *)
(* rationals; the documents of the model give satin only such lengths.     *)
(***************************************************************************)
ISqrt(n) == CHOOSE r \in 0..n : r * r = n

RSqrt(a) == IF IsNaN(a) THEN NaN ELSE <<ISqrt(a[1]), ISqrt(a[2])>>

SegLen(coords, j) == RSqrt(Dist2(coords[j], coords[j + 1]))

RECURSIVE SumLens(_, _)
SumLens(coords, j) ==
    IF j >= Len(coords) THEN I(0) ELSE RAdd(SegLen(coords, j), SumLens(coords, j + 1))

\* the zigzag point on segment j for the i-th stitch at arc length target
SatinPoint(coords, width, i, j, target, current_length) ==
    LET p1 == coords[j]
        p2 == coords[j + 1]
        length == SegLen(coords, j)
        local_t == RDiv(RSub(target, current_length), length)
        x == RAdd(p1[1], RMul(RSub(p2[1], p1[1]), local_t))
        y == RAdd(p1[2], RMul(RSub(p2[2], p1[2]), local_t))
        perp_x == RDiv(RSub(p1[2], p2[2]), length)
        perp_y == RDiv(RSub(p2[1], p1[1]), length)
        offset == RMul(RMul(width, Rat(1, 2)), I(IF i % 2 = 0 THEN 1 ELSE -1))
    IN  <<RAdd(x, RMul(perp_x, offset)), RAdd(y, RMul(perp_y, offset))>>

\* the inner loop over the segments for stitch i: [raised, pts] with at most one point
RECURSIVE SatinWalk(_, _, _, _, _, _)
SatinWalk(coords, width, i, j, target, current_length) ==
    IF j >= Len(coords) THEN [raised |-> FALSE, pts |-> <<>>]
    ELSE LET length == SegLen(coords, j)
         IN  IF RGe(RAdd(current_length, length), target)
             THEN IF DivRaises(length)
                  THEN [raised |-> TRUE, pts |-> <<>>]     \* ZeroDivisionError in local_t
                  ELSE [raised |-> FALSE,
                        pts |-> IF RGt(length, I(0))
                                THEN <<SatinPoint(coords, width, i, j, target, current_length)>>
                                ELSE <<>>]
             ELSE SatinWalk(coords, width, i, j + 1, target, RAdd(current_length, length))

RECURSIVE SatinFrom(_, _, _, _, _)
SatinFrom(coords, width, i, num_stitches, total_length) ==
    IF i >= num_stitches THEN [raised |-> FALSE, pts |-> <<>>]
    ELSE Bind(SatinWalk(coords, width, i, 1, RMul(Rat(i, num_stitches - 1), total_length), I(0)),
              LAMBDA one :
                  IF one.raised THEN one
                  ELSE Bind(SatinFrom(coords, width, i + 1, num_stitches, total_length),
                            LAMBDA rest : [raised |-> rest.raised, pts |-> one.pts \o rest.pts]))

generate_satin_stitches(coords, width) ==
    IF Len(coords) < 2 THEN [raised |-> FALSE, pts |-> <<>>]
    ELSE Bind(SumLens(coords, 1),
              LAMBDA total_length :
                  IF IsNaN(total_length) THEN [raised |-> TRUE, pts |-> <<>>]    \* int(nan)
                  ELSE Bind(Max2(I(2), I(Trunc(RDiv(total_length, satin_stitch_length))))[1],
                            LAMBDA num_stitches :
                                SatinFrom(coords, width, 0, num_stitches, total_length)))

(***************************************************************************)
(* calculate_shape_width                                                   *)
(***************************************************************************)
calculate_shape_width(coords) ==
    IF coords = <<>> THEN I(0)
    ELSE Bind(BBox(coords),
              LAMBDA bb :
                  LET width == RSub(bb.max_x, bb.min_x)
                      height == RSub(bb.max_y, bb.min_y)
                  IN  IF REq(width, I(0)) /\ REq(height, I(0)) THEN I(0)
                      ELSE RDiv(RAdd(width, height), I(2)))

(***************************************************************************)
(* Elements: the records extract_svg_elements builds, and their conversion *)
(* to coordinates.  [raised, pts] is an exception flag and a point list.   *)
(***************************************************************************)
Ok(pts) == [raised |-> FALSE, pts |-> pts]
Raised == [raised |-> TRUE, pts |-> <<>>]

convert_rect_to_coordinates(e) ==
    <<<<e.x, e.y>>,
      <<RAdd(e.x, e.width), e.y>>,
      <<RAdd(e.x, e.width), RAdd(e.y, e.height)>>,
      <<e.x, RAdd(e.y, e.height)>>,
      <<e.x, e.y>>>>

\* coords[0] != coords[-1] on tuples of floats: one and the same tuple when there
\* is a single point, else float inequality (NaN differs from everything)
FirstDiffersFromLast(coords) ==
    /\ Len(coords) > 1
    /\ (RNe(coords[1][1], coords[Len(coords)][1]) \/ RNe(coords[1][2], coords[Len(coords)][2]))

convert_polygon_to_coordinates(e) ==
    IF e.tag = "polygon" /\ e.points # <<>> /\ FirstDiffersFromLast(e.points)
    THEN Append(e.points, e.points[1])
    ELSE e.points

convert_element_to_coordinates(e) ==
    CASE e.tag = "rect" -> convert_rect_to_coordinates(e)
      [] e.tag \in {"polygon", "polyline"} -> convert_polygon_to_coordinates(e)
      [] OTHER -> <<>>

scale_coordinates(coords, svg_width, svg_height, target_width) ==
    IF coords = <<>> THEN Ok(<<>>)
    ELSE IF DivRaises(svg_width) \/ DivRaises(svg_height) THEN Raised
    ELSE LET scale == Min2(RDiv(target_width, svg_width), RDiv(target_width, svg_height))
         IN  Ok(List([i \in 1..Len(coords) |->
                        <<RMul(coords[i][1], scale), RMul(coords[i][2], scale)>>]))

(***************************************************************************)
(* optimize_stitch_order                                                   *)
(***************************************************************************)
\* the comparison with the y coordinate forgotten
TupleLtXOnly(a, b) == RLt(a[1], b[1])

\* a < b on (x, y) tuples of floats
TupleLt(a, b) ==
    IF RNe(a[1], b[1]) THEN RLt(a[1], b[1])
    ELSE IF RNe(a[2], b[2]) THEN RLt(a[2], b[2])
    ELSE FALSE

KeyLt(a, b) == TupleLt(a.start_pos, b.start_pos)

\* list.sort on a short list: the leading run is found (and reversed when strictly
\* descending), then the rest is inserted by binary search
RECURSIVE RunEnd(_, _, _)
RunEnd(s, n, desc) ==
    IF n >= Len(s) THEN n
    ELSE IF KeyLt(s[n + 1], s[n]) = desc THEN RunEnd(s, n + 1, desc)
    ELSE n

Reverse(s) == List([i \in 1..Len(s) |-> s[Len(s) + 1 - i]])

RECURSIVE BinaryPos(_, _, _, _)
BinaryPos(s, pivot, l, r) ==
    IF l >= r THEN l
    ELSE LET p == l + ((r - l) \div 2)
         IN  IF KeyLt(pivot, s[p]) THEN BinaryPos(s, pivot, l, p)
             ELSE BinaryPos(s, pivot, p + 1, r)

RECURSIVE BinarySort(_, _)
BinarySort(s, start) ==
    IF start > Len(s) THEN s
    ELSE Bind(BinaryPos(s, s[start], 1, start),
              LAMBDA l :
                  Bind(SubSeq(s, 1, l - 1) \o <<s[start]>> \o SubSeq(s, l, start - 1)
                       \o SubSeq(s, start + 1, Len(s)),
                       LAMBDA moved : BinarySort(moved, start + 1)))

SortByStartPos(s) ==
    IF Len(s) < 2 THEN s
    ELSE Bind(KeyLt(s[2], s[1]),
              LAMBDA desc :
                  Bind(RunEnd(s, 2, desc),
                       LAMBDA n :
                           Bind(IF desc THEN Reverse(SubSeq(s, 1, n)) \o SubSeq(s, n + 1, Len(s))
                                ELSE s,
                                LAMBDA run : BinarySort(run, n + 1))))

\* the keys of color_groups, in insertion order
RECURSIVE ColorOrder(_, _)
ColorOrder(bs, seen) ==
    IF bs = <<>> THEN seen
    ELSE Bind(IF \E k \in 1..Len(seen) : seen[k] = Head(bs).color
              THEN seen ELSE Append(seen, Head(bs).color),
              LAMBDA next : ColorOrder(Tail(bs), next))

ColorGroup(bs, color) ==
    LET Same(b) == b.color = color
    IN  SelectSeq(bs, Same)

optimize_stitch_order(stitch_blocks) ==
    Bind(ColorOrder(stitch_blocks, <<>>),
         LAMBDA colors :
             Concat([k \in 1..Len(colors) |->
                        Bind(ColorGroup(stitch_blocks, colors[k]), LAMBDA g : SortByStartPos(g))]))

(***************************************************************************)
(* add_svg_to_pattern: from the elements to the stitch blocks              *)
(***************************************************************************)
\* the tags root.iter() keeps: those ending in one of the seven drawable names
DrawableTags == {"path", "rect", "circle", "ellipse", "line", "polyline", "polygon"}

\* an attribute text that float() rejects with ValueError, e.g. x="abc"
Malformed == <<0, -1>>

HasMalformed(e) == Malformed \in {e.stroke_width, e.x, e.y, e.width, e.height}

\* extract_svg_elements: the element records, each carrying the viewBox size.  One
\* try block spans the whole loop: a float() that raises on any drawable element
\* makes the function return []
extract_svg_elements(doc) ==
    Bind(SelectSeq(doc.elems, LAMBDA e : e.tag \in DrawableTags),
         LAMBDA kept :
             IF \E i \in 1..Len(kept) : HasMalformed(kept[i]) THEN <<>>
             ELSE [i \in 1..Len(kept) |->
                      [tag |-> kept[i].tag, fill |-> kept[i].fill, stroke |-> kept[i].stroke,
                       stroke_width |-> kept[i].stroke_width,
                       x |-> kept[i].x, y |-> kept[i].y,
                       width |-> kept[i].width, height |-> kept[i].height,
                       points |-> kept[i].points,
                       svg_width |-> doc.vb[1], svg_height |-> doc.vb[2]]])

Painted(color) == color # "" /\ color # "none"

Block(stitches, color, type) ==
    [stitches |-> stitches, color |-> color, type |-> type, start_pos |-> stitches[1]]

NoGen == [gen |-> "none", width |-> I(0), n |-> 0]

\* the fill branch of one element: the generator chosen by the width, its stitches
FillOf(coords) ==
    Bind(calculate_shape_width(coords),
         LAMBDA width :
             IF RLe(width, satin_width_threshold)
             THEN [gen |-> "satin", width |-> width, out |-> generate_satin_stitches(coords, width)]
             ELSE [gen |-> "fill", width |-> width, out |-> generate_fill_stitches(coords)])

\* one iteration of the element loop: the blocks it appends and what ran for the fill.
\* An exception anywhere in the iteration is caught and the element is skipped.
ProcessElement(e) ==
    Bind(convert_element_to_coordinates(e), LAMBDA raw :
    Bind(scale_coordinates(raw, e.svg_width, e.svg_height, I(100)), LAMBDA sc :
    Bind(Painted(e.fill) /\ Len(sc.pts) >= 3, LAMBDA wantFill :
    Bind(IF wantFill /\ ~sc.raised THEN FillOf(sc.pts)
         ELSE [gen |-> "none", width |-> I(0), out |-> Ok(<<>>)], LAMBDA f :
    Bind(IF Painted(e.stroke) /\ RGt(e.stroke_width, I(0)) /\ ~sc.raised /\ ~f.out.raised
         THEN generate_running_stitches(sc.pts, stroke_stitch_length) ELSE <<>>, LAMBDA running :
        IF raw = <<>> \/ sc.raised THEN [blocks |-> <<>>, gen |-> NoGen]
        ELSE IF f.out.raised
             THEN [blocks |-> <<>>, gen |-> [gen |-> f.gen, width |-> f.width, n |-> 0]]
        ELSE [blocks |->
                 (IF f.out.pts # <<>> THEN <<Block(f.out.pts, e.fill, "fill")>> ELSE <<>>)
                 \o (IF running # <<>> THEN <<Block(running, e.stroke, "stroke")>> ELSE <<>>),
              gen |-> IF wantFill
                      THEN [gen |-> f.gen, width |-> f.width, n |-> Len(f.out.pts)]
                      ELSE NoGen])))))

ElementResults(doc) ==
    Bind(extract_svg_elements(doc) \o <<>>,
         LAMBDA elements : List([i \in 1..Len(elements) |-> ProcessElement(elements[i])]))

(***************************************************************************)
(* add_svg_to_pattern: from the optimized blocks to the command stream     *)
(***************************************************************************)
Cmd(c, x, y) == [cmd |-> c, x |-> x, y |-> y]

AllStitches(bs) == Concat([i \in 1..Len(bs) |-> bs[i].stitches])

min_dimension == I(10)

\* the bounding box of all stitches, each side widened to min_dimension
DesignBox(all_stitches) ==
    Bind(BBox(all_stitches),
         LAMBDA bb :
             LET width == RSub(bb.max_x, bb.min_x)
                 height == RSub(bb.max_y, bb.min_y)
                 center_x == RDiv(RAdd(bb.min_x, bb.max_x), I(2))
                 center_y == RDiv(RAdd(bb.min_y, bb.max_y), I(2))
                 half == RDiv(min_dimension, I(2))
                 wide == RLt(width, min_dimension)
                 tall == RLt(height, min_dimension)
             IN  [min_x |-> IF wide THEN RSub(center_x, half) ELSE bb.min_x,
                  max_x |-> IF wide THEN RAdd(center_x, half) ELSE bb.max_x,
                  min_y |-> IF tall THEN RSub(center_y, half) ELSE bb.min_y,
                  max_y |-> IF tall THEN RAdd(center_y, half) ELSE bb.max_y])

CornerStitches(bs) ==
    Bind(AllStitches(bs),
         LAMBDA all_stitches :
             IF bs = <<>> \/ all_stitches = <<>> THEN <<>>
             ELSE Bind(DesignBox(all_stitches),
                       LAMBDA b : <<Cmd("JUMP", b.min_x, b.min_y),
                                    Cmd("STITCH", b.max_x, b.min_y),
                                    Cmd("STITCH", b.max_x, b.max_y),
                                    Cmd("STITCH", b.min_x, b.max_y),
                                    Cmd("STITCH", b.min_x, b.min_y),
                                    Cmd("TRIM", b.min_x, b.min_y)>>))

\* current_color != color, current_color being None before the first block
ColorChangeNeeded(bs, k) == k = 1 \/ bs[k - 1].color # bs[k].color

HasNaN(stitches) == \E i \in 1..Len(stitches) : IsNaN(stitches[i][1]) \/ IsNaN(stitches[i][2])

\* block != stitch_blocks[-1]: dict comparison by value; two different blocks never
\* share a float object, so a NaN makes them differ
DiffersFromLast(bs, k) ==
    /\ k # Len(bs)
    /\ (bs[k] # bs[Len(bs)] \/ HasNaN(bs[k].stitches))

\* the command for stitch i of a block: skipped when a coordinate is not finite
StitchCmd(stitches, i) ==
    IF ~IsFinite(stitches[i][1]) \/ ~IsFinite(stitches[i][2]) THEN <<>>
    ELSE IF i = 1 THEN <<Cmd("JUMP", stitches[i][1], stitches[i][2])>>
    ELSE <<Cmd("STITCH", stitches[i][1], stitches[i][2])>>

\* one iteration of the block loop
EmitBlock(bs, k) ==
    Bind(bs[k].stitches,
         LAMBDA stitches :
             (IF ColorChangeNeeded(bs, k) THEN <<Cmd("COLOR_CHANGE", I(0), I(0))>> ELSE <<>>)
             \o Concat([i \in 1..Len(stitches) |-> StitchCmd(stitches, i)])
             \o (IF DiffersFromLast(bs, k)
                 THEN <<Cmd("TRIM", stitches[Len(stitches)][1], stitches[Len(stitches)][2])>>
                 ELSE <<>>))

EndCmd(bs) ==
    IF bs = <<>> THEN <<>>
    ELSE LET stitches == bs[Len(bs)].stitches
         IN  <<Cmd("END", stitches[Len(stitches)][1], stitches[Len(stitches)][2])>>

\* for i, color in enumerate(colors_used): pattern.add_thread(..).  colors_used is
\* a set of strings: it is iterated in the order of the strings' hashes, which
\* differs from process to process, so every order of the colors can come out.
\* The colors of the model all start with '#' and are their own hex value.
ThreadLists(stitch_blocks) ==
    LET colors_used == {stitch_blocks[k].color : k \in 1..Len(stitch_blocks)}
    IN  {order \in [1..Cardinality(colors_used) -> colors_used] :
            \A i, j \in DOMAIN order : order[i] = order[j] => i = j}

\* [blocksIn, blocks, gens, perBlock, pattern]: the blocks before and after the
\* optimizer, what ran for each element, the commands of each block, the stream
add_svg_to_pattern(doc) ==
    Bind(ElementResults(doc), LAMBDA rs :
    Bind(Concat([i \in 1..Len(rs) |-> rs[i].blocks]), LAMBDA unordered :
    Bind(optimize_stitch_order(unordered), LAMBDA bs :
    Bind(List([k \in 1..Len(bs) |-> EmitBlock(bs, k)]), LAMBDA each :
        [blocksIn |-> unordered,
         blocks |-> bs,
         gens |-> [i \in 1..Len(rs) |-> rs[i].gen],
         perBlock |-> each,
         pattern |-> CornerStitches(bs) \o Concat(each) \o EndCmd(bs)]))))

(***************************************************************************)
(* The raw encoder: create_pes_file_with_stitches, create_default_pes_file *)
(* and create_simple_pes_file.  A buffer is a sequence of bytes.           *)
(***************************************************************************)
Magic == <<35, 80, 69, 83, 48, 48, 54, 48>>     \* b'#PES0060'

PesHeader ==
    Magic \o <<0, 0, 0, 0>> \o <<1, 0>> \o <<0, 0>> \o <<100, 0>> \o <<100, 0>> \o <<0, 0, 0, 0>>

\* the buffer returned when building the file raises
MinimalPes ==
    Magic \o <<0, 0, 0, 0>> \o <<1, 0>> \o <<100, 0>> \o <<100, 0>> \o <<0, 0, 0, 0, 0, 0>>

RECURSIVE Digits(_)
Digits(n) == IF n < 10 THEN <<48 + n>> ELSE Digits(n \div 10) \o <<48 + (n % 10)>>

\* f'Thread {i+1}\x00'.encode('ascii')
ThreadName(i) == <<84, 104, 114, 101, 97, 100, 32>> \o Digits(i) \o <<0>>

\* struct.pack('<H', v)
PackH(v) == <<v % 256, v \div 256>>

\* int(x * 10), or the exception of int(nan) / of struct.pack out of range
PesUnits(x) == Trunc(RMul(x, I(10)))
PackRaises(x) == IsNaN(x) \/ PesUnits(x) < 0 \/ PesUnits(x) > 65535

StitchRecord(stitches, i) ==
    (IF i = 1 THEN <<0, 1>> ELSE <<0, 2>>)
    \o PackH(PesUnits(stitches[i][1])) \o PackH(PesUnits(stitches[i][2]))

create_pes_file_with_stitches(stitches, ncolors) ==
    IF \E i \in 1..Len(stitches) : PackRaises(stitches[i][1]) \/ PackRaises(stitches[i][2])
    THEN MinimalPes
    ELSE PesHeader
         \o Concat([i \in 1..ncolors |-> ThreadName(i)])
         \o <<0, 0>>
         \o Concat([i \in 1..Len(stitches) |-> StitchRecord(stitches, i)])
         \o <<0, 0>>

DefaultStitches == <<Pt(0, 0), Pt(100, 0), Pt(100, 100), Pt(0, 100), Pt(0, 0)>>

create_default_pes_file == create_pes_file_with_stitches(DefaultStitches, 1)

\* one iteration of the element loop of create_simple_pes_file; here an exception
\* leaves the loop (raised) and the default file is returned
SimpleElement(e) ==
    Bind(convert_element_to_coordinates(e), LAMBDA raw :
    Bind(scale_coordinates(raw, I(100), I(100), I(100)).pts, LAMBDA coords :
    Bind(IF Painted(e.fill) THEN generate_fill_stitches(coords) ELSE Ok(<<>>), LAMBDA fill :
    Bind(IF Painted(e.stroke) /\ RGt(e.stroke_width, I(0)) /\ ~fill.raised
         THEN generate_running_stitches(coords, stroke_stitch_length) ELSE <<>>, LAMBDA running :
        IF raw = <<>> THEN [raised |-> FALSE, pts |-> <<>>, colors |-> {}, gen |-> NoGen]
        ELSE [raised |-> fill.raised,
              pts |-> fill.pts \o running,
              colors |-> (IF fill.pts # <<>> THEN {e.fill} ELSE {})
                         \cup (IF running # <<>> THEN {e.stroke} ELSE {}),
              gen |-> IF Painted(e.fill) /\ Len(coords) >= 3
                      THEN [gen |-> "fill", width |-> calculate_shape_width(coords),
                            n |-> Len(fill.pts)]
                      ELSE NoGen]))))

SimpleResults(doc) ==
    Bind(extract_svg_elements(doc) \o <<>>,
         LAMBDA elements : List([i \in 1..Len(elements) |-> SimpleElement(elements[i])]))

\* the rest of create_simple_pes_file, after the element loop
SimpleFile(rs) ==
    Bind(Concat([i \in 1..Len(rs) |-> rs[i].pts]),
         LAMBDA stitch_data :
             IF rs = <<>> \/ (\E i \in 1..Len(rs) : rs[i].raised) \/ stitch_data = <<>>
             THEN create_default_pes_file
             ELSE create_pes_file_with_stitches(
                      stitch_data, Cardinality(UNION {rs[i].colors : i \in 1..Len(rs)})))

\* what ran for the fill of each element the loop of create_simple_pes_file reached
SimpleGens(rs) ==
    [i \in 1..Len(rs) |-> IF \E j \in 1..(i - 1) : rs[j].raised THEN NoGen ELSE rs[i].gen]

\* [data, gens]: the returned buffer, and what ran for each element
create_simple_pes_file(doc) ==
    Bind(SimpleResults(doc), LAMBDA rs : [data |-> SimpleFile(rs), gens |-> SimpleGens(rs)])

(***************************************************************************)
(* The documents of the model                                              *)
(***************************************************************************)
Elem(tag, fill, stroke, x, y, w, h, pts) ==
    [tag |-> tag, fill |-> fill, stroke |-> stroke, stroke_width |-> I(1),
     x |-> x, y |-> y, width |-> w, height |-> h, points |-> pts]

Rect(fill, stroke, x, w, h) == Elem("rect", fill, stroke, x, I(0), I(w), I(h), <<>>)

Elements ==
    { Rect("#f00", "none", I(0), 7, 7),       \* wide: tatami fill
      Rect("#00f", "none", I(0), 7, 7),       \* the same in another color
      Rect("#f00", "none", I(0), 4, 4),       \* narrow: satin
      Rect("#f00", "#00f", I(0), 7, 7),       \* fill and stroke
      Rect("#f00", "none", I(0), 11, 2),      \* wide and flat: no scan row inside
      Rect("none", "#f00", I(0), 2, 2),       \* stroke only
      Rect("none", "#f00", I(0), 11, 2),      \* stroke only, wider than min_dimension
      Rect("#f00", "none", Malformed, 7, 7),  \* x="abc"
      Rect("#f00", "none", NaN, 7, 7),        \* x="nan"
      Elem("clipPath", "#f00", "none", I(0), I(0), I(0), I(0), <<>>),         \* not a drawable tag
      Elem("polygon", "none", "#f00", I(0), I(0), I(0), I(0),
           <<<<NaN, I(0)>>, Pt(10, 0), Pt(10, 10)>>),                         \* points="nan 0 10 0 10 10"
      Elem("polyline", "none", "#00f", I(0), I(0), I(0), I(0),
           <<Pt(0, 0), Pt(3, 4), <<NaN, I(4)>>>>) }                           \* points="0 0 3 4 nan 4"

RECURSIVE SeqsUpTo(_, _)
SeqsUpTo(S, n) ==
    IF n = 0 THEN {<<>>}
    ELSE LET shorter == SeqsUpTo(S, n - 1)
         IN  shorter \cup {Append(s, e) : s \in {t \in shorter : Len(t) = n - 1}, e \in S}

ViewBoxes == {<<I(100), I(100)>>, <<I(50), I(50)>>}

Docs == {[vb |-> v, elems |-> es] : v \in ViewBoxes, es \in SeqsUpTo(Elements, MaxElems)}

(***************************************************************************)
(* convert_svg_to_pes as a state machine.  The two writers of the encoder  *)
(* library return bytes, return no bytes, or raise.                        *)
(***************************************************************************)
Outcomes == {"bytes", "empty", "raise"}

Unset == [src |-> "unset", len |-> 0, data |-> <<>>]
None == [src |-> "None", len |-> 0, data |-> <<>>]
Written(src) == [src |-> src, len |-> 1, data |-> <<>>]     \* len(result) > 0, content not modelled
Raw(data) == [src |-> "create_simple_pes_file", len |-> Len(data), data |-> data]

PureIdle == arg = <<>> /\ ret = <<>>

PatternIdle ==
    /\ blocksIn = <<>> /\ blocks = <<>> /\ gens = <<>> /\ simpleGens = <<>>
    /\ perBlock = <<>> /\ pattern = <<>> /\ threads = <<>> /\ result = Unset

\* no request: no item, no object, no invocation
CloudIdle == table = <<>> /\ objects = {} /\ invocations = 0

Init ==
    /\ svg \in Docs
    /\ avail \in BOOLEAN
    /\ pc = "start"
    /\ PatternIdle
    /\ PureIdle
    /\ CloudIdle

\* if not PYEMBROIDERY_AVAILABLE: return create_simple_pes_file(svg_content)
Unavailable ==
    /\ pc = "start" /\ ~avail
    /\ \E r \in {create_simple_pes_file(svg)} :
          result' = Raw(r.data) /\ simpleGens' = r.gens
    /\ pc' = "done"
    /\ UNCHANGED <<svg, avail, blocksIn, blocks, gens, perBlock, pattern, threads, arg, ret, cloud>>

\* the whole of add_svg_to_pattern(pattern, svg_content)
AddSvgToPattern ==
    /\ pc = "start" /\ avail
    /\ \E r \in {add_svg_to_pattern(svg)} :
          /\ blocksIn' = r.blocksIn
          /\ blocks' = r.blocks
          /\ gens' = r.gens
          /\ perBlock' = r.perBlock
          /\ pattern' = r.pattern
          /\ threads' \in ThreadLists(r.blocksIn)
    /\ pc' = "write_pes"
    /\ UNCHANGED <<svg, avail, simpleGens, result, arg, ret, cloud>>

\* pyembroidery.write_pes(pattern, pes_data)
WritePes ==
    /\ pc = "write_pes"
    /\ \E o \in Outcomes :
          IF o = "bytes"
          THEN result' = Written("write_pes") /\ pc' = "done"
          ELSE result' = result /\ pc' = "write_dst"
    /\ UNCHANGED <<svg, avail, blocksIn, blocks, gens, simpleGens, perBlock, pattern, threads, arg, ret, cloud>>

\* pyembroidery.write_dst(pattern, dst_data); a raise is re-raised into the outer
\* handler, which returns create_simple_pes_file(svg_content)
WriteDst ==
    /\ pc = "write_dst"
    /\ \E o \in Outcomes :
          CASE o = "bytes" -> result' = Written("write_dst") /\ simpleGens' = simpleGens
            [] o = "empty" -> result' = None /\ simpleGens' = simpleGens
            [] o = "raise" -> \E r \in {create_simple_pes_file(svg)} :
                                  result' = Raw(r.data) /\ simpleGens' = r.gens
    /\ pc' = "done"
    /\ UNCHANGED <<svg, avail, blocksIn, blocks, gens, perBlock, pattern, threads, arg, ret, cloud>>

Next == Unavailable \/ AddSvgToPattern \/ WritePes \/ WriteDst

Spec == Init /\ [][Next]_vars

(***************************************************************************)
(* Claims about convert_svg_to_pes and add_svg_to_pattern (Spec)           *)
(***************************************************************************)
\* add_svg_to_pattern has returned
Added == avail /\ pc \in {"write_pes", "write_dst", "done"}

CountCmd(cmds, c) == Cardinality({i \in 1..Len(cmds) : cmds[i].cmd = c})

\* C1: whatever the PES writer and the DST writer do (bytes, no bytes, raise),
\* convert_svg_to_pes returns a non-empty byte buffer, never None.
C1_ReturnsBytes == pc = "done" => (result.src # "None" /\ result.len > 0)

\* C2: for every input the command stream holds exactly one End, and that End
\* is its last command.
C2_EndOnceAndLast ==
    Added => (CountCmd(pattern, "END") = 1 /\ pattern[Len(pattern)].cmd = "END")

\* C3: with n >= 1 blocks, every block but the last is followed by exactly one
\* Trim (its iteration ends with it) and no Trim follows the last block.
C3_TrimBetweenBlocks ==
    Added =>
        \A k \in 1..Len(blocks) :
            IF k < Len(blocks)
            THEN /\ CountCmd(perBlock[k], "TRIM") = 1
                 /\ perBlock[k][Len(perBlock[k])].cmd = "TRIM"
            ELSE CountCmd(perBlock[k], "TRIM") = 0

\* C4: a ColorChange is emitted before a block exactly when the block's color
\* differs from the color of the block emitted just before it; a design of one
\* color has no ColorChange.
C4_ColorChangeIffColorDiffers ==
    Added =>
        \A k \in 1..Len(blocks) :
            (CountCmd(perBlock[k], "COLOR_CHANGE") > 0)
                <=> (k > 1 /\ blocks[k].color # blocks[k - 1].color)

\* the commands emitted for the points of block k
PointCmds(k) ==
    LET IsPoint(c) == c.cmd \in {"JUMP", "STITCH"}
    IN  SelectSeq(perBlock[k], IsPoint)

\* C5: the first command emitted for the points of a block is a Jump and every
\* further one is a Stitch.
C5_JumpThenStitches ==
    Added =>
        \A k \in 1..Len(blocks) :
            \A i \in 1..Len(PointCmds(k)) :
                PointCmds(k)[i].cmd = (IF i = 1 THEN "JUMP" ELSE "STITCH")

\* C6: no command added to the pattern carries a NaN or infinite coordinate.
C6_NoNonFiniteCommand ==
    Added => \A i \in 1..Len(pattern) : IsFinite(pattern[i].x) /\ IsFinite(pattern[i].y)

\* the generator a filled closed shape of this measured width must get
ByThreshold(g) ==
    /\ RLe(g.width, satin_width_threshold) => g.gen = "satin"
    /\ RGt(g.width, satin_width_threshold) => g.gen = "fill"

\* C8: in add_svg_to_pattern and in create_simple_pes_file alike, a filled closed
\* shape of measured width <= 6 mm gets satin, a wider one gets fill.
C8_SatinByWidthEverywhere ==
    /\ \A i \in 1..Len(gens) : gens[i].gen # "none" => ByThreshold(gens[i])
    /\ \A i \in 1..Len(simpleGens) : simpleGens[i].gen # "none" => ByThreshold(simpleGens[i])

\* the same for add_svg_to_pattern alone: holds, the divergence of C8 lies in
\* create_simple_pes_file
SatinByWidthInPattern ==
    \A i \in 1..Len(gens) : gens[i].gen # "none" => ByThreshold(gens[i])

(***************************************************************************)
(* The generators and the optimizer applied on their own: the argument is  *)
(* drawn from a bounded set of finite points, the action applies the       *)
(* function.                                                               *)
(***************************************************************************)
PipelineIdle == svg = <<>> /\ avail = FALSE /\ PatternIdle /\ CloudIdle

\* grid coordinates in mm: 0, 3, 8, 15, ...
Coord(k) == k * k + 2 * k

GridPoints == {Pt(Coord(a), Coord(b)) : a \in 0..MaxCoord, b \in 0..MaxCoord}

Returns(value) ==
    /\ ret' = value
    /\ pc' = "returned"
    /\ UNCHANGED <<svg, avail, blocksIn, blocks, gens, simpleGens, perBlock, pattern, threads, result, arg, cloud>>

(* generate_running_stitches(coords, stitch_length) *)
StitchLengths == {stroke_stitch_length, I(2)}

\* the points of a path: two rows of the grid
PathPoints == {p \in GridPoints : RLe(p[2], I(Coord(1)))}

RunInputs ==
    {[coords |-> c, len |-> l] :
        c \in {q \in SeqsUpTo(PathPoints, MaxPts) : Len(q) >= 2}, l \in StitchLengths}

InitRun == pc = "call" /\ arg \in RunInputs /\ ret = <<>> /\ PipelineIdle

CallRunning == pc = "call" /\ Returns(generate_running_stitches(arg.coords, arg.len))

SpecRun == InitRun /\ [][CallRunning]_vars

\* a is a subsequence of r: the items of a from i on occur in order in r from j on
RECURSIVE SubseqFrom(_, _, _, _)
SubseqFrom(a, i, r, j) ==
    IF i > Len(a) THEN TRUE
    ELSE IF j > Len(r) THEN FALSE
    ELSE IF r[j] = a[i] THEN SubseqFrom(a, i + 1, r, j + 1)
    ELSE SubseqFrom(a, i, r, j + 1)

\* C10: the result holds every input point in input order, first and last
\* included, and two consecutive result points (they always lie on one input
\* segment) are at most the stitch length apart.
C10_RunningKeepsPointsAndSpacing ==
    pc = "returned" =>
        /\ ret[1] = arg.coords[1]
        /\ ret[Len(ret)] = arg.coords[Len(arg.coords)]
        /\ SubseqFrom(arg.coords, 1, ret, 1)
        /\ \A k \in 1..(Len(ret) - 1) : RLe(Dist2(ret[k], ret[k + 1]), RMul(arg.len, arg.len))

\* intermediate stitches were inserted on a path of three points
C10_Witness ==
    pc = "returned" /\ Len(arg.coords) = 3 /\ Len(ret) > Len(arg.coords) + 2

(* generate_fill_stitches(coords) *)
\* twice the signed area of the triangle a, b, c
Cross(a, b, c) ==
    RSub(RMul(RSub(b[1], a[1]), RSub(c[2], a[2])), RMul(RSub(b[2], a[2]), RSub(c[1], a[1])))

\* closed triangles of positive area
FillInputs ==
    {<<t[1], t[2], t[3], t[1]>> :
        t \in {u \in GridPoints \X GridPoints \X GridPoints : Cross(u[1], u[2], u[3]) # I(0)}}

InitFill == pc = "call" /\ arg \in FillInputs /\ ret = <<>> /\ PipelineIdle

CallFill == pc = "call" /\ Returns(generate_fill_stitches(arg).pts)

SpecFill == InitFill /\ [][CallFill]_vars

\* C9: a closed shape of at least 3 points and positive area gets at least one
\* fill stitch.
C9_FillYieldsAStitch == pc = "returned" => Len(ret) >= 1

(* optimize_stitch_order(stitch_blocks) *)
BlockColors == {"#f00", "#00f"}

StartPoints == {Pt(0, 0), Pt(0, 1), Pt(1, 0)}

\* block lists; the second stitch of a block tells its place in the input
TagBlocks(ps) ==
    [i \in 1..Len(ps) |-> Block(<<ps[i][1], Pt(100, i)>>, ps[i][2], "fill")]

OrderInputs == {TagBlocks(ps) : ps \in SeqsUpTo(StartPoints \X BlockColors, MaxBlocks)}

InitOrder == pc = "call" /\ arg \in OrderInputs /\ ret = <<>> /\ PipelineIdle

CallOrder == pc = "call" /\ Returns(optimize_stitch_order(arg))

SpecOrder == InitOrder /\ [][CallOrder]_vars

\* the place of block b in the input, and the first place of its color
PlaceOf(b) == CHOOSE i \in 1..Len(arg) : arg[i] = b
FirstOfColor(c) == CHOOSE i \in 1..Len(arg) : arg[i].color = c /\ \A j \in 1..(i - 1) : arg[j].color # c

\* lexicographic (x, y) order on finite points, written out
LexLess(p, q) == RLt(p[1], q[1]) \/ (p[1] = q[1] /\ RLt(p[2], q[2]))

StrokePoints(k) == (k * max_stitches_per_block) \div (MaxSpan - 1)

LongStroke(k, color) ==
    Elem("polyline", "none", color, I(0), I(0), I(0), I(0),
         [i \in 1..StrokePoints(k) |-> Pt(i % 2, 0)])

LongDocs ==
    {[vb |-> v, elems |-> <<LongStroke(k, c)>>] : v \in ViewBoxes, k \in 0..MaxSpan, c \in BlockColors}

InitLong ==
    svg \in LongDocs /\ avail \in BOOLEAN /\ pc = "start" /\ PatternIdle /\ PureIdle /\ CloudIdle

SpecLong == InitLong /\ [][Next]_vars

\* C11: every stitch block handed to the optimizer holds at most
\* max_stitches_per_block points, whatever the shape.
C11_BlocksCapped ==
    \A k \in 1..Len(blocksIn) : Len(blocksIn[k].stitches) <= max_stitches_per_block

(***************************************************************************)
(* The pipeline on empty and malformed markup, and the boundary stitches.  *)
(***************************************************************************)
StartsWith(data, prefix) == Len(data) >= Len(prefix) /\ SubSeq(data, 1, Len(prefix)) = prefix

\* C12: when extract_svg_elements returns no element, the conversion returns the
\* default single-square design, with or without the encoder library; the buffer
\* starts with the magic prefix and holds at least 20 bytes.
C12_EmptyMarkupGivesDefaultSquare ==
    (pc = "done" /\ extract_svg_elements(svg) = <<>>) =>
        /\ result.src = "create_simple_pes_file"
        /\ result.data = create_pes_file_with_stitches(
                             <<Pt(0, 0), Pt(100, 0), Pt(100, 100), Pt(0, 100), Pt(0, 0)>>, 1)
        /\ StartsWith(result.data, <<35, 80, 69, 83, 48, 48, 54, 48>>)
        /\ Len(result.data) >= 20

\* the document without its malformed elements
WellFormedPart(doc) ==
    [doc EXCEPT !.elems = SelectSeq(doc.elems, LAMBDA e : ~HasMalformed(e))]

\* C13: a malformed element is skipped alone: the blocks are those of the
\* well-formed elements of the document.
C13_OnlyMalformedSkipped ==
    Added => blocksIn = add_svg_to_pattern(WellFormedPart(svg)).blocksIn

\* the points of all blocks
BlockPoints == UNION {{blocks[k].stitches[i] : i \in 1..Len(blocks[k].stitches)} : k \in 1..Len(blocks)}

Lowest(S) == CHOOSE a \in S : \A b \in S : RLe(a, b)
Highest(S) == CHOOSE a \in S : \A b \in S : RLe(b, a)

\* the extent lo .. hi, widened to 10 mm around its midpoint when smaller
AtLeastTen(lo, hi) ==
    IF RLt(RSub(hi, lo), I(10))
    THEN <<RSub(RDiv(RAdd(lo, hi), I(2)), I(5)), RAdd(RDiv(RAdd(lo, hi), I(2)), I(5))>>
    ELSE <<lo, hi>>

\* the finite values among the coordinates of the block points
FiniteXs == {p[1] : p \in {q \in BlockPoints : IsFinite(q[1])}}
FiniteYs == {p[2] : p \in {q \in BlockPoints : IsFinite(q[2])}}

BoxX == AtLeastTen(Lowest(FiniteXs), Highest(FiniteXs))
BoxY == AtLeastTen(Lowest(FiniteYs), Highest(FiniteYs))

\* C20: the boundary stitches walk the bounding box of all block points, each
\* dimension below 10 mm widened to exactly 10 mm around its midpoint and the
\* others unchanged, and they come before the commands of every block.
C20_BoundaryBoxFirst ==
    (Added /\ blocks # <<>> /\ FiniteXs # {} /\ FiniteYs # {}) =>
        /\ SubSeq(pattern, 1, 6) =
               <<Cmd("JUMP", BoxX[1], BoxY[1]), Cmd("STITCH", BoxX[2], BoxY[1]),
                 Cmd("STITCH", BoxX[2], BoxY[2]), Cmd("STITCH", BoxX[1], BoxY[2]),
                 Cmd("STITCH", BoxX[1], BoxY[1]), Cmd("TRIM", BoxX[1], BoxY[1])>>
        /\ SubSeq(pattern, 7, Len(pattern) - 1) = Concat(perBlock)

\* the same on the designs whose block points are all finite
BoundaryBoxOfFinitePoints ==
    (\A p \in BlockPoints : IsFinite(p[1]) /\ IsFinite(p[2])) => C20_BoundaryBoxFirst

\* the place in stitch_blocks of the first block of a color
FirstBlockOf(color) ==
    CHOOSE i \in 1..Len(blocksIn) :
        blocksIn[i].color = color /\ \A j \in 1..(i - 1) : blocksIn[j].color # color

\* C21: the thread list has one entry per distinct color of the stitch blocks, in
\* the order in which the colors are first seen.
C21_ThreadsInFirstSeenOrder ==
    Added =>
        /\ Len(threads) = Cardinality({blocksIn[k].color : k \in 1..Len(blocksIn)})
        /\ \A i \in 1..Len(threads) : \E k \in 1..Len(blocksIn) : blocksIn[k].color = threads[i]
        /\ \A i, j \in 1..Len(threads) :
               i < j => FirstBlockOf(threads[i]) < FirstBlockOf(threads[j])

(***************************************************************************)
(* scale_coordinates on its own                                            *)
(***************************************************************************)
AuthoredSizes == {I(0), I(50), I(100)}

ScaleInputs ==
    {[coords |-> c, svg_width |-> w, svg_height |-> h] :
        c \in SeqsUpTo(GridPoints, MaxPts - 1), w \in AuthoredSizes, h \in AuthoredSizes}

InitScale == pc = "call" /\ arg \in ScaleInputs /\ ret = <<>> /\ PipelineIdle

\* scale_coordinates(coords, svg_width, svg_height), target_width at its default
CallScale ==
    pc = "call" /\ Returns(scale_coordinates(arg.coords, arg.svg_width, arg.svg_height, I(100)))

SpecScale == InitScale /\ [][CallScale]_vars

\* C14: scale_coordinates never raises; with an authored width or height of zero
\* it returns the input points unscaled.
C14_ScaleGuardsZeroSize ==
    pc = "returned" =>
        /\ ~ret.raised
        /\ (arg.svg_width = I(0) \/ arg.svg_height = I(0)) => ret.pts = arg.coords

(***************************************************************************)
(* count_stitches_in_pes, extract_pes_dimensions, assess_embroidery_quality *)
(***************************************************************************)
\* struct.unpack('<H', pes_content[i:i+2])[0], i counted from 0
U16(b, i) == b[i + 1] + 256 * b[i + 2]

\* the while loop of the byte scan: i the offset, n the stitch_count so far
RECURSIVE Scan(_, _, _)
Scan(b, i, n) ==
    IF i >= Len(b) - 4 THEN n
    ELSE IF 0 < U16(b, i) /\ U16(b, i) < 1000 /\ 0 < U16(b, i + 2) /\ U16(b, i + 2) < 1000
         THEN Scan(b, i + 4, n + 1)
         ELSE Scan(b, i + 1, n)

\* available: PYEMBROIDERY_AVAILABLE; decoded: what pattern.read_pes does on the
\* buffer, [raised, count] with count = len(pattern.stitches)
count_stitches_in_pes(pes_content, available, decoded) ==
    IF Len(pes_content) < 8 THEN 0
    ELSE IF SubSeq(pes_content, 1, 4) # <<35, 80, 69, 83>> THEN 0       \* b'#PES'
    ELSE Bind(Scan(pes_content, 0, 0),
              LAMBDA stitch_count :
                  IF available /\ ~decoded.raised /\ decoded.count > stitch_count
                  THEN decoded.count
                  ELSE stitch_count)

extract_pes_dimensions(pes_content) ==
    IF Len(pes_content) < 20
    THEN [width |-> I(0), height |-> I(0)]
    ELSE [width |-> RMul(I(U16(pes_content, 16)), Rat(1, 10)),
          height |-> RMul(I(U16(pes_content, 18)), Rat(1, 10))]

\* the chain with the bucket of 20 stitches counted as very simple
QualityBucketLoose(stitch_count) ==
    IF stitch_count = 0 THEN [complexity |-> "none", level |-> "invalid"]
    ELSE IF stitch_count <= 20 THEN [complexity |-> "very_simple", level |-> "basic"]
    ELSE IF stitch_count < 100 THEN [complexity |-> "simple", level |-> "basic"]
    ELSE IF stitch_count < 300 THEN [complexity |-> "moderate", level |-> "good"]
    ELSE IF stitch_count < 1000 THEN [complexity |-> "complex", level |-> "high"]
    ELSE IF stitch_count < 3000 THEN [complexity |-> "highly_complex", level |-> "high"]
    ELSE [complexity |-> "highly_complex", level |-> "professional"]

\* the if / elif chain on stitch_count
QualityBucket(stitch_count) ==
    IF stitch_count = 0 THEN [complexity |-> "none", level |-> "invalid"]
    ELSE IF stitch_count < 20 THEN [complexity |-> "very_simple", level |-> "basic"]
    ELSE IF stitch_count < 100 THEN [complexity |-> "simple", level |-> "basic"]
    ELSE IF stitch_count < 300 THEN [complexity |-> "moderate", level |-> "good"]
    ELSE IF stitch_count < 1000 THEN [complexity |-> "complex", level |-> "high"]
    ELSE IF stitch_count < 3000 THEN [complexity |-> "highly_complex", level |-> "high"]
    ELSE [complexity |-> "highly_complex", level |-> "professional"]

assess_embroidery_quality(stitch_count, pes_content) ==
    Bind(extract_pes_dimensions(pes_content), LAMBDA dimensions :
    Bind(QualityBucket(stitch_count), LAMBDA bucket :
    Bind(RMul(dimensions.width, dimensions.height), LAMBDA area :
        [level |-> IF RGt(dimensions.width, I(0)) /\ RGt(dimensions.height, I(0)) /\ RGt(area, I(0))
                   THEN IF RLt(RDiv(I(stitch_count), area), Rat(1, 10)) THEN "basic"
                        ELSE IF RGt(RDiv(I(stitch_count), area), I(2)) THEN "professional"
                        ELSE bucket.level
                   ELSE bucket.level,
         complexity |-> bucket.complexity,
         dimensions |-> dimensions,
         stitch_density |-> RDiv(I(stitch_count), Max2(area, I(1)))])))

\* buffers: a prefix ('#PES0060', '#PES0001', '#PEC0001') and up to MaxWords
\* 16-bit words out of 0, 10 and 1000; and the beginnings of the magic prefix
Buffers ==
    {prefix \o Concat(words) :
        prefix \in {Magic, <<35, 80, 69, 83, 48, 48, 48, 49>>, <<35, 80, 69, 67, 48, 48, 48, 49>>},
        words \in SeqsUpTo({<<0, 0>>, <<10, 0>>, <<232, 3>>}, MaxWords)}
    \cup {SubSeq(Magic, 1, k) : k \in 0..7}

\* the structural decoder raises or returns a pattern of count stitches
DecodeOutcomes ==
    {[raised |-> TRUE, count |-> 0]}
    \cup {[raised |-> FALSE, count |-> c] :
             c \in {0, 1, 19, 20, 99, 100, 299, 300, 999, 1000, 2999, 3000}}

InitCount ==
    /\ pc = "call"
    /\ arg \in {[content |-> b, available |-> a, decoded |-> d] :
                   b \in Buffers, a \in BOOLEAN, d \in DecodeOutcomes}
    /\ ret = <<>> /\ PipelineIdle

\* stitch_count = count_stitches_in_pes(pes_content)
\* quality = assess_embroidery_quality(stitch_count, pes_content)
CallCount ==
    /\ pc = "call"
    /\ \E c \in {count_stitches_in_pes(arg.content, arg.available, arg.decoded)} :
          Returns([count |-> c, quality |-> assess_embroidery_quality(c, arg.content)])

SpecCount == InitCount /\ [][CallCount]_vars

\* C15: count_stitches_in_pes returns 0 for every buffer shorter than the 20-byte
\* header or not starting with '#PES0060' (stated for the calls without the
\* structural decoder).
C15_RejectsShortOrForeign ==
    (pc = "returned" /\ ~arg.available
        /\ (Len(arg.content) < 20 \/ ~StartsWith(arg.content, <<35, 80, 69, 83, 48, 48, 54, 48>>)))
    => ret.count = 0

\* C16: a buffer whose stitch count is 0 is assessed as level 'invalid' and
\* complexity 'none', whatever width and height its bytes 16..19 encode.
C16_ZeroCountIsInvalid ==
    (pc = "returned" /\ ret.count = 0) =>
        ret.quality.level = "invalid" /\ ret.quality.complexity = "none"

\* C17: when the structural decoder is available and decodes the buffer without
\* error, the count returned is the decoder's count (stated for the buffers that
\* reach the decoder).
C17_StructuralCountWins ==
    (pc = "returned" /\ arg.available /\ ~arg.decoded.raised
        /\ Len(arg.content) >= 8 /\ StartsWith(arg.content, <<35, 80, 69, 83>>))
    => ret.count = arg.decoded.count

ComplexityOf(c) ==
    CASE c < 20 -> "very_simple"
      [] c >= 20 /\ c < 100 -> "simple"
      [] c >= 100 /\ c < 300 -> "moderate"
      [] c >= 300 /\ c < 1000 -> "complex"
      [] c >= 1000 -> "highly_complex"

LevelOf(c) ==
    CASE c < 100 -> "basic"
      [] c >= 100 /\ c < 300 -> "good"
      [] c >= 300 /\ c < 3000 -> "high"
      [] c >= 3000 -> "professional"

HasArea(dim) == RGt(dim.width, I(0)) /\ RGt(dim.height, I(0))

\* count / (width * height) as a pair of integers to compare: count * 10 < area
Sparse(c, dim) == HasArea(dim) /\ RLt(RMul(I(c), I(10)), RMul(dim.width, dim.height))
Dense(c, dim) == HasArea(dim) /\ RGt(I(c), RMul(I(2), RMul(dim.width, dim.height)))

\* C19: for a stitch count c >= 1 the complexity is that of the bucket of c alone;
\* the level is 'basic' when width and height are positive and the density
\* c / (width * height) is below 0.1, 'professional' when it is above 2.0, and the
\* level of the bucket of c otherwise.
C19_BucketsAndDensity ==
    (pc = "returned" /\ ret.count >= 1) =>
        /\ ret.quality.complexity = ComplexityOf(ret.count)
        /\ ret.quality.level =
              IF Sparse(ret.count, ret.quality.dimensions) THEN "basic"
              ELSE IF Dense(ret.count, ret.quality.dimensions) THEN "professional"
              ELSE LevelOf(ret.count)

\* 300 stitches on 100 mm x 100 mm: complex, demoted from high to basic
C19_Witness ==
    /\ pc = "returned" /\ ret.count = 300
    /\ ret.quality.dimensions = [width |-> I(100), height |-> I(100)]
    /\ ret.quality.complexity = "complex" /\ ret.quality.level = "basic"

\* the scan that also examines the window ending at the last byte
RECURSIVE WindowScan(_, _, _)
WindowScan(b, i, n) ==
    IF i + 4 > Len(b) THEN n
    ELSE IF 0 < U16(b, i) /\ U16(b, i) < 1000 /\ 0 < U16(b, i + 2) /\ U16(b, i + 2) < 1000
         THEN WindowScan(b, i + 4, n + 1)
         ELSE WindowScan(b, i + 1, n)

\* C27: the heuristic count is the number of matches of the left-to-right scan over
\* every offset i with i + 4 <= len(buffer), a match being two 16-bit values
\* strictly between 0 and 1000, advancing by 4 after a match and by 1 otherwise.
C27_ScanCoversLastWindow ==
    (pc = "returned" /\ ~arg.available
        /\ Len(arg.content) >= 8 /\ StartsWith(arg.content, <<35, 80, 69, 83>>))
    => ret.count = WindowScan(arg.content, 0, 0)

(***************************************************************************)
(* Round trip: create_pes_file_with_stitches, then the byte scan of        *)
(* count_stitches_in_pes                                                   *)
(***************************************************************************)
InitRoundTrip ==
    /\ pc = "call"
    /\ arg \in SeqsUpTo({Pt(0, 0), Pt(Coord(1), Coord(1)), Pt(100, 100), Pt(-1, 0)}, MaxStitches)
    /\ ret = <<>> /\ PipelineIdle

CallRoundTrip ==
    /\ pc = "call"
    /\ \E b \in {create_pes_file_with_stitches(arg, 1)} :
          Returns([content |-> b,
                   count |-> count_stitches_in_pes(b, FALSE, [raised |-> TRUE, count |-> 0])])

SpecRoundTrip == InitRoundTrip /\ [][CallRoundTrip]_vars

\* C18: the byte scan of a buffer encoded from n stitches counts n stitches up
\* to a fixed tolerance.
C18_RoundTripWithinTolerance ==
    pc = "returned" => Abs(ret.count - Len(arg)) <= Tolerance

\* the offset of the first stitch record: header, one thread name, start marker
RecordsFrom == Len(PesHeader) + Len(ThreadName(1)) + 2

\* C26: the buffer holds, after the header and the thread names, one 6-byte record
\* per stitch in input order: opcode 00 01 for the first stitch and 00 02 for the
\* others, then x and y in tenths of a millimeter as little-endian 16-bit values
\* (modulo 2^16), also for negative coordinates.
C26_OneRecordPerStitch ==
    pc = "returned" =>
        /\ Len(ret.content) = RecordsFrom + 6 * Len(arg) + 2
        /\ \A k \in 1..Len(arg) :
              /\ SubSeq(ret.content, RecordsFrom + 6 * k - 5, RecordsFrom + 6 * k - 4)
                     = <<0, IF k = 1 THEN 1 ELSE 2>>
              /\ (U16(ret.content, RecordsFrom + 6 * k - 4) - 10 * arg[k][1][1]) % 65536 = 0
              /\ (U16(ret.content, RecordsFrom + 6 * k - 2) - 10 * arg[k][2][1]) % 65536 = 0

(* generate_satin_stitches(coords, width) *)
MaxSatinPts == 3

\* the corners of a 3 x 4 rectangle: all distances between them are integers
SatinPoints == {Pt(0, 0), Pt(3, 0), Pt(3, 4), Pt(0, 4)}

SatinInputs ==
    {[coords |-> c, width |-> w] :
        c \in {q \in SeqsUpTo(SatinPoints, MaxSatinPts) : Len(q) >= 2}, w \in {I(0), I(2)}}

InitSatin == pc = "call" /\ arg \in SatinInputs /\ ret = <<>> /\ PipelineIdle

CallSatin == pc = "call" /\ Returns(generate_satin_stitches(arg.coords, arg.width))

SpecSatin == InitSatin /\ [][CallSatin]_vars

\* C29: for every sequence of at least 2 points, repeated consecutive points and
\* all points identical included, generate_satin_stitches returns a point list
\* and does not raise.
C29_SatinNeverRaises == pc = "returned" => ~ret.raised

(***************************************************************************)
(* parse_basic_path.  Path data is a list of words separated by blanks: a  *)
(* command letter, a decimal integer literal m, an exponent literal "mEe",  *)
(* or a word that is no number.                                            *)
(***************************************************************************)
few_coords == 10
coord_limit == 10000

Command == [kind |-> "cmd", m |-> 0, e |-> 0]
Junk == [kind |-> "junk", m |-> 0, e |-> 0]
Empty == [kind |-> "empty", m |-> 0, e |-> 0]
Literal(n) == [kind |-> "int", m |-> n, e |-> 0]
Exponent(n, k) == [kind |-> "exp", m |-> n, e |-> k]

\* re.sub of the command letters by blanks, then re.split(r'[, \s]+'): an
\* empty token stands where the data began or ended with a separator
Tokens(path_data) ==
    LET Kept(w) == w.kind # "cmd"
    IN  (IF path_data = <<>> \/ path_data[1].kind = "cmd" THEN <<Empty>> ELSE <<>>)
        \o SelectSeq(path_data, Kept)
        \o (IF path_data # <<>> /\ path_data[Len(path_data)].kind = "cmd" THEN <<Empty>> ELSE <<>>)

\* float(token) of a numeric token
Float(w) == I(w.m * 10 ^ w.e)

Reasonable(x, y) ==
    /\ RLt(I(-coord_limit), x) /\ RLt(x, I(coord_limit))
    /\ RLt(I(-coord_limit), y) /\ RLt(y, I(coord_limit))

\* the while loop over the tokens, i and i + 1 being the tokens examined
RECURSIVE StrictPairs(_, _)
StrictPairs(tokens, i) ==
    IF i >= Len(tokens) THEN <<>>
    ELSE LET x_str == tokens[i]
             y_str == tokens[i + 1]
         IN  IF x_str.kind = "empty" \/ y_str.kind = "empty" THEN StrictPairs(tokens, i + 1)
             ELSE IF x_str.kind = "junk" \/ y_str.kind = "junk"
                  THEN StrictPairs(tokens, i + 1)        \* ValueError
             ELSE IF Reasonable(Float(x_str), Float(y_str))
                  THEN <<<<Float(x_str), Float(y_str)>>>> \o StrictPairs(tokens, i + 2)
                  ELSE StrictPairs(tokens, i + 1)

\* re.findall(r'[+-]?\d*\.?\d+'): an exponent literal gives two numbers
Numbers(path_data) ==
    Concat([k \in 1..Len(path_data) |->
               IF path_data[k].kind = "int" THEN <<I(path_data[k].m)>>
               ELSE IF path_data[k].kind = "exp" THEN <<I(path_data[k].m), I(path_data[k].e)>>
               ELSE <<>>])

\* for i in range(0, len(numbers) - 1, 2)
NumberPairs(numbers) ==
    LET all == [k \in 1..(Len(numbers) \div 2) |-> <<numbers[2 * k - 1], numbers[2 * k]>>]
        Kept(p) == Reasonable(p[1], p[2])
    IN  SelectSeq(all, Kept)

parse_basic_path(path_data) ==
    Bind(StrictPairs(Tokens(path_data), 1),
         LAMBDA coords :
             IF Len(coords) < few_coords THEN coords \o NumberPairs(Numbers(path_data))
             ELSE coords)

MaxPathWords == 4
MaxPairs == 10

Words == {Command, Junk, Literal(0), Literal(7), Literal(-3), Literal(coord_limit), Exponent(1, 3)}

\* M 1 1 L 2 2 L 3 3 ... with n pairs
Polyline(n) == Concat([k \in 1..n |-> <<Command, Literal(k), Literal(k)>>])

PathInputs == SeqsUpTo(Words, MaxPathWords) \cup {Polyline(n) : n \in 1..MaxPairs}

InitPath == pc = "call" /\ arg \in PathInputs /\ ret = <<>> /\ PipelineIdle

CallPath == pc = "call" /\ Returns(parse_basic_path(arg))

SpecPath == InitPath /\ [][CallPath]_vars

\* the numbers of the path data, command letters dropped
Operands(path_data) == LET Kept(w) == w.kind # "cmd" IN SelectSeq(path_data, Kept)

\* N < 10 pairs of integer literals strictly inside the magnitude bound
WellFormedPairs(path_data) ==
    LET ns == Operands(path_data)
    IN  /\ Len(ns) % 2 = 0
        /\ Len(ns) \div 2 < few_coords
        /\ \A k \in 1..Len(ns) :
              ns[k].kind = "int" /\ -coord_limit < ns[k].m /\ ns[k].m < coord_limit

\* C28: a command string of N < 10 well-formed pairs yields exactly its N
\* points, each once and in order.
C28_OnePassOnePointPerPair ==
    (pc = "returned" /\ WellFormedPairs(arg)) =>
        LET ns == Operands(arg)
        IN  ret = [k \in 1..(Len(ns) \div 2) |-> <<I(ns[2 * k - 1].m), I(ns[2 * k].m)>>]

(***************************************************************************)
(* shield_callback.lambda_handler.  The status table holds at most the     *)
(* record of request 1; an object is a bucket and a key, a key a prefix    *)
(* and the request id.  The flags of an event say which service calls      *)
(* raise.                                                                  *)
(***************************************************************************)
Item(status) ==
    [status |-> status, scan_result |-> "absent", error |-> "absent",
     pes_key |-> "absent", stitch_count |-> <<>>, quality |-> "absent"]

Object(bucket, prefix) == [bucket |-> bucket, prefix |-> prefix, request_id |-> 1]

\* the uploaded file in the quarantine bucket
Uploaded(event) == Object("shield", event.prefix)

\* the module assigns no global named timestamp; the handler reads it
timestamp_defined == FALSE

Response(code, body, tbl, objs, inv) ==
    [raised |-> FALSE, statusCode |-> code, body |-> body,
     table |-> tbl, objects |-> objs, invocations |-> inv]

\* update_item with SET #status = :status, #error = :error: creates the item if missing
MarkFailed(tbl, writes_fail) ==
    IF writes_fail THEN tbl
    ELSE IF tbl = <<>> THEN <<[Item("failed") EXCEPT !.error = "set"]>>
    ELSE [tbl EXCEPT ![1].status = "failed", ![1].error = "set"]

\* the tags of the object, or the tags of the event when they cannot be read
scan_status(event) == IF event.tagging_fails THEN event.event_tag ELSE event.tag

\* the branch of a clean file
CleanFile(event, tbl, objs, inv) ==
    IF ~timestamp_defined \/ event.writes_fail
    THEN Response(500, "Failed to update status", tbl, objs, inv)
    ELSE LET converting == [tbl EXCEPT ![1].status = "converting"]
             copied == objs \cup {Object("processing", "processing")}
             left == IF event.delete_fails THEN copied ELSE copied \ {Uploaded(event)}
         IN  IF event.copy_fails
             THEN Response(500, "Failed to move file", MarkFailed(converting, FALSE), objs, inv)
             ELSE IF event.invoke_fails
             THEN Response(500, "Failed to invoke converter", MarkFailed(converting, FALSE), left, inv)
             ELSE Response(200, "Processed successfully", converting, left, inv + 1)

\* a threat branch that forwards the file like the clean branch
ThreatForwarded(event, tbl, objs, inv) ==
    [raised |-> FALSE, statusCode |-> 200, body |-> "Processed successfully",
     table |-> tbl, objects |-> objs \cup {Object("processing", "processing")},
     invocations |-> inv + 1]

\* the branch of every other scan status
ThreatFile(event, tbl, objs, inv) ==
    LET infected == IF timestamp_defined /\ ~event.writes_fail
                    THEN <<[Item("infected") EXCEPT !.scan_result = "set"]>>
                    ELSE tbl
        left == IF event.delete_fails THEN objs ELSE objs \ {Uploaded(event)}
    IN  IF timestamp_defined
        THEN Response(200, "Processed successfully", infected, left, inv)
        ELSE \* NameError in the security log entry: the outer handler marks the
             \* request failed and raises again
             [raised |-> TRUE, statusCode |-> 0, body |-> "NameError",
              table |-> MarkFailed(infected, event.writes_fail), objects |-> left,
              invocations |-> inv]

shield_callback_handler(event, tbl, objs, inv) ==
    IF ~event.has_details THEN Response(400, "Missing S3 details", tbl, objs, inv)
    ELSE IF event.head_fails THEN Response(500, "Failed to get object metadata", tbl, objs, inv)
    ELSE IF event.app_name # "stitch" THEN Response(200, "Not for stitch", tbl, objs, inv)
    ELSE IF event.prefix # "stitch" THEN Response(400, "Invalid S3 key format", tbl, objs, inv)
    ELSE IF event.get_item_fails THEN Response(500, "Failed to get request details", tbl, objs, inv)
    ELSE IF tbl = <<>> THEN Response(404, "Request not found", tbl, objs, inv)
    ELSE IF scan_status(event) = "NO_THREATS_FOUND" THEN CleanFile(event, tbl, objs, inv)
    ELSE ThreatFile(event, tbl, objs, inv)

ScanStatuses == {"NO_THREATS_FOUND", "THREATS_FOUND", "UNKNOWN"}

ShieldEvents ==
    [has_details : BOOLEAN, prefix : {"stitch", "other"}, app_name : {"stitch", "other"},
     tag : ScanStatuses, event_tag : ScanStatuses, tagging_fails : BOOLEAN,
     head_fails : BOOLEAN, get_item_fails : BOOLEAN, writes_fail : BOOLEAN,
     copy_fails : BOOLEAN, delete_fails : BOOLEAN, invoke_fails : BOOLEAN, known : BOOLEAN]

\* a scan result arrives for an uploaded file; the request is in the table if known
InitShield ==
    /\ pc = "call" /\ arg \in ShieldEvents /\ ret = <<>>
    /\ svg = <<>> /\ avail = FALSE /\ PatternIdle
    /\ table = IF arg.known THEN <<Item("uploading")>> ELSE <<>>
    /\ objects = {Uploaded(arg)}
    /\ invocations = 0

CallShield ==
    /\ pc = "call"
    /\ \E r \in {shield_callback_handler(arg, table, objects, invocations)} :
          /\ ret' = [raised |-> r.raised, statusCode |-> r.statusCode, body |-> r.body]
          /\ table' = r.table
          /\ objects' = r.objects
          /\ invocations' = r.invocations
    /\ pc' = "returned"
    /\ UNCHANGED <<svg, avail, blocksIn, blocks, gens, simpleGens, perBlock, pattern, threads, result, arg>>

SpecShield == InitShield /\ [][CallShield]_vars

\* every service answers
AllUp(event) ==
    /\ ~event.tagging_fails /\ ~event.head_fails /\ ~event.get_item_fails
    /\ ~event.writes_fail /\ ~event.copy_fails /\ ~event.delete_fails /\ ~event.invoke_fails

\* an event for a known request of this application that reaches the scan-status branch
ForStitch(event) ==
    /\ event.has_details /\ event.prefix = "stitch" /\ event.app_name = "stitch"
    /\ event.known /\ ~event.head_fails /\ ~event.get_item_fails

\* C22: after the callback has handled an event whose scan status is not
\* NO_THREATS_FOUND, nothing is in the processing bucket and the converter has
\* not been invoked, whichever service calls failed.
C22_ThreatNeverForwarded ==
    (pc = "returned" /\ scan_status(arg) # "NO_THREATS_FOUND") =>
        /\ invocations = 0
        /\ \A o \in objects : o.bucket # "processing"

\* a threat was handled for a known request: the upload is gone from quarantine
C22_Witness ==
    /\ pc = "returned" /\ ForStitch(arg) /\ scan_status(arg) = "THREATS_FOUND"
    /\ Uploaded(arg) \notin objects
    /\ invocations = 0

\* C23: a clean event for stitch/{id}/upload.svg of this application with an
\* existing record ends with status converting, the file copied to
\* processing/{id}/upload.svg and deleted from quarantine, the converter invoked
\* exactly once, and statusCode 200.
C23_CleanFileForwarded ==
    (pc = "returned" /\ ForStitch(arg) /\ AllUp(arg) /\ scan_status(arg) = "NO_THREATS_FOUND") =>
        /\ table # <<>> /\ table[1].status = "converting"
        /\ Object("processing", "processing") \in objects
        /\ Uploaded(arg) \notin objects
        /\ invocations = 1
        /\ ~ret.raised /\ ret.statusCode = 200

\* C24: a threat event with an existing record ends with status infected and
\* a scan_result, the file deleted from quarantine, and statusCode 200 returned
\* without raising.
C24_ThreatMarkedInfected ==
    (pc = "returned" /\ ForStitch(arg) /\ AllUp(arg) /\ scan_status(arg) # "NO_THREATS_FOUND") =>
        /\ table # <<>> /\ table[1].status = "infected" /\ table[1].scan_result # "absent"
        /\ Uploaded(arg) \notin objects
        /\ ~ret.raised /\ ret.statusCode = 200

(***************************************************************************)
(* status_checker.lambda_handler.  The table resource returns a stored     *)
(* number as a Decimal; json.dumps serializes int and str, not Decimal.    *)
(***************************************************************************)
PyInt(n) == [type |-> "int", n |-> n]
Decimal(n) == [type |-> "Decimal", n |-> n]

\* item.get('stitch_count', 0)
StoredCount(item) == IF item.stitch_count = <<>> THEN PyInt(0) ELSE Decimal(item.stitch_count[1])

\* item.get(key, default) of a string attribute
StoredText(value, default) == IF value = "absent" THEN default ELSE value

\* the response of the outer exception handler: a body without a status
CheckFailed ==
    [statusCode |-> 500, status |-> "absent", download_url |-> FALSE,
     stitch_count |-> PyInt(0), quality |-> "absent", error |-> "Failed to check status"]

Answer(code, status) ==
    [statusCode |-> code, status |-> status, download_url |-> FALSE,
     stitch_count |-> PyInt(0), quality |-> "absent", error |-> "absent"]

\* json.dumps of the body of a finished conversion
Ready(item) ==
    IF StoredCount(item).type = "Decimal" THEN CheckFailed        \* TypeError
    ELSE [Answer(200, "ready") EXCEPT !.download_url = TRUE,
                                      !.stitch_count = StoredCount(item),
                                      !.quality = StoredText(item.quality, "unknown")]

status_checker_handler(tbl, get_item_fails) ==
    IF get_item_fails THEN CheckFailed
    ELSE IF tbl = <<>> THEN Answer(404, "not_found")
    ELSE LET item == tbl[1]
         IN  IF item.status = "converted"
             THEN IF item.pes_key = "absent" THEN CheckFailed     \* KeyError
                  ELSE Ready(item)
             ELSE IF item.status = "infected" THEN Answer(403, "infected")
             ELSE IF item.status = "failed"
                  THEN [Answer(500, "failed") EXCEPT !.error = StoredText(item.error, "Unknown error")]
             ELSE Answer(202, item.status)

MaxCount == 2

Statuses == {"uploading", "scanning", "converting", "converted", "infected", "failed"}

StoredItems ==
    [status : Statuses, scan_result : {"absent", "set"}, error : {"absent", "set"},
     pes_key : {"absent", "converted/1.pes"},
     stitch_count : {<<>>} \cup {<<n>> : n \in 0..MaxCount},
     quality : {"absent", "high"}]

InitStatus ==
    /\ pc = "call" /\ arg \in [get_item_fails : BOOLEAN] /\ ret = <<>>
    /\ svg = <<>> /\ avail = FALSE /\ PatternIdle
    /\ table \in {<<>>} \cup {<<item>> : item \in StoredItems}
    /\ objects = {} /\ invocations = 0

CallStatus == pc = "call" /\ Returns(status_checker_handler(table, arg.get_item_fails))

SpecStatus == InitStatus /\ [][CallStatus]_vars

\* the record of a finished conversion as handle_async_conversion writes it
ConvertedRecord(item) ==
    item.status = "converted" /\ item.pes_key # "absent" /\ item.stitch_count # <<>>
        /\ item.quality # "absent"

\* C25: with the table readable, no record gives 404 not_found; a converted
\* record gives 200 ready with a download URL, the stored stitch count and the
\* stored quality; infected gives 403 infected; failed gives 500 failed; every
\* other status gives 202 echoing the status.
C25_StatusMapsToResponse ==
    (pc = "returned" /\ ~arg.get_item_fails) =>
        IF table = <<>> THEN ret.statusCode = 404 /\ ret.status = "not_found"
        ELSE IF ConvertedRecord(table[1])
             THEN /\ ret.statusCode = 200 /\ ret.status = "ready" /\ ret.download_url
                  /\ ret.stitch_count.n = table[1].stitch_count[1]
                  /\ ret.quality = table[1].quality
        ELSE IF table[1].status = "converted" THEN TRUE
        ELSE IF table[1].status = "infected" THEN ret.statusCode = 403 /\ ret.status = "infected"
        ELSE IF table[1].status = "failed" THEN ret.statusCode = 500 /\ ret.status = "failed"
        ELSE ret.statusCode = 202 /\ ret.status = table[1].status

(***************************************************************************)
(* handle_async_conversion, one action per service call, so that the       *)
(* status the table holds between two calls is a state.  arg is the event  *)
(* with the number of the attempt and the buffer convert_svg_to_pes gives  *)
(* for the source object; ret holds pes_content.                           *)
(***************************************************************************)
MaxRetries == 2

Source == Object("processing", "processing")
Converted == Object("storage", "converted")

\* update_status: the failure of the write is logged and swallowed
update_status(tbl, status, additional_data, ok) ==
    IF ~ok THEN tbl
    ELSE LET item == IF tbl = <<>> THEN Item(status) ELSE [tbl[1] EXCEPT !.status = status]
         IN  <<[f \in DOMAIN item |->
                   IF f \in DOMAIN additional_data THEN additional_data[f] ELSE item[f]]>>

AsyncStep(from, to) ==
    /\ pc = from
    /\ pc' = to
    /\ UNCHANGED <<svg, avail, blocksIn, blocks, gens, simpleGens, perBlock, pattern, threads, result,
                   arg, invocations>>

\* update_status(request_id, 'converting')
MarkConverting ==
    /\ AsyncStep("invoked", "download")
    /\ \E ok \in BOOLEAN : table' = update_status(table, "converting", <<>>, ok)
    /\ UNCHANGED <<objects, ret>>

\* s3_client.get_object(Bucket=source_bucket, Key=source_key)
Download ==
    /\ \E ok \in BOOLEAN :
          AsyncStep("download", IF ok /\ Source \in objects THEN "convert" ELSE "failing")
    /\ UNCHANGED <<table, objects, ret>>

\* pes_content = convert_svg_to_pes(svg_content); if not pes_content: raise
Convert ==
    /\ AsyncStep("convert", IF arg.converts_to = <<>> THEN "failing" ELSE "store")
    /\ ret' = arg.converts_to
    /\ UNCHANGED <<table, objects>>

\* s3_client.put_object(Bucket=BUCKET_NAME, Key=pes_key, Body=pes_content)
Store ==
    /\ \E ok \in BOOLEAN :
          /\ AsyncStep("store", IF ok THEN "mark" ELSE "failing")
          /\ objects' = IF ok THEN objects \cup {Converted} ELSE objects
    /\ UNCHANGED <<table, ret>>

\* count, assess, update_status(request_id, 'converted', {...})
MarkConverted ==
    /\ AsyncStep("mark", "cleanup")
    /\ \E ok \in BOOLEAN :
       \E stitch_count \in {count_stitches_in_pes(ret, FALSE, [raised |-> TRUE, count |-> 0])} :
       \E quality \in {assess_embroidery_quality(stitch_count, ret)} :
          table' = update_status(table, "converted",
                                 [pes_key |-> "converted/1.pes", stitch_count |-> <<stitch_count>>,
                                  quality |-> quality.level], ok)
    /\ UNCHANGED <<objects, ret>>

\* s3_client.delete_object(Bucket=source_bucket, Key=source_key); return
Cleanup ==
    /\ \E ok \in BOOLEAN :
          /\ AsyncStep("cleanup", IF ok THEN "done" ELSE "failing")
          /\ objects' = IF ok THEN objects \ {Source} ELSE objects
    /\ UNCHANGED <<table, ret>>

\* except Exception: update_status(request_id, 'failed', {'error': ...}); raise
Fail ==
    /\ AsyncStep("failing", "raised")
    /\ \E ok \in BOOLEAN : table' = update_status(table, "failed", [error |-> "set"], ok)
    /\ UNCHANGED <<objects, ret>>

\* the Lambda service delivers the event of a failed asynchronous invocation again
Retry ==
    /\ pc = "raised"
    /\ arg.attempt < MaxRetries
    /\ pc' = "invoked"
    /\ arg' = [arg EXCEPT !.attempt = @ + 1]
    /\ ret' = <<>>
    /\ UNCHANGED <<svg, avail, blocksIn, blocks, gens, simpleGens, perBlock, pattern, threads, result, cloud>>

AsyncEvents ==
    [attempt : {0},
     converts_to : {<<>>, MinimalPes, create_pes_file_with_stitches(<<Pt(0, 0), Pt(1, 1)>>, 1)}]

InitAsync ==
    /\ pc = "invoked" /\ arg \in AsyncEvents /\ ret = <<>>
    /\ svg = <<>> /\ avail = FALSE /\ PatternIdle
    /\ table \in {<<>>, <<Item("uploading")>>, <<Item("converting")>>}
    /\ objects \in {{}, {Source}}
    /\ invocations = 1

NextAsync ==
    MarkConverting \/ Download \/ Convert \/ Store \/ MarkConverted \/ Cleanup \/ Fail \/ Retry

SpecAsync == InitAsync /\ [][NextAsync]_vars

IsConverted(tbl) == tbl # <<>> /\ tbl[1].status = "converted"

\* C30: the status is 'converted' only while the PES buffer is stored under
\* pes_key, and no step of this invocation or of a retried one changes a status
\* 'converted' to another status.
C30_ConvertedIsStoredAndFinal ==
    /\ [](IsConverted(table) => Converted \in objects)
    /\ [][IsConverted(table) => IsConverted(table')]_vars

====
